---- MODULE Spec2Model ----
(***************************************************************************)
(* Model of the typing-practice application: the TypingTest component      *)
(* (linear-position variant, src/unnamed/part_002), its timing session     *)
(* (src/core/timing/wpm.ts) and its word supply.                           *)
(*                                                                         *)
(* Conventions                                                             *)
(*  - a string of the program is a sequence of one-character strings, so   *)
(*    "ab" is <<"a","b">>; text[p] of the code (0-based) is text[p + 1].   *)
(*  - a Map of the program is a function whose DOMAIN is its key set.      *)
(*  - undefined timestamps are the value Undefined.                        *)
(*  - Date.now() is a monotone clock: a handler reads any value that is    *)
(*    not below the timestamps the session already holds.                  *)
(*  - isFocused only selects a hint of the view and is left out.           *)
(*  - React runs an event handler, the state updaters it queues and the    *)
(*    effects of the resulting render before the next event is delivered,  *)
(*    so every handler is one atomic action.                               *)
(*  - a JavaScript number is an IEEE 754 binary64 value; the divisions and *)
(*    the multiplication of wpm.ts round as binary64 does.                 *)
(***************************************************************************)
EXTENDS Integers, Sequences, FiniteSets, TLC

VARIABLES
    state,      \* useState<TestState>: the component state record
    wordCache,  \* module-level Map<Mode, string[]>
    fetches,    \* set of word-list fetches in flight
    keys,       \* history: the key events of the session (SpecKeys only)
    timing,     \* a TimingSessionState driven directly (SpecTiming only)
    now,        \* the clock Date.now() reads (SpecTiming only)
    call        \* one call of a function and its outcome (SpecCalc, SpecWords,
                \* SpecIndices, SpecKeyboard)

vars == <<state, wordCache, fetches, keys, timing, now, call>>

----
\* Bounds of the model.

\* Date.now() returns a value in 0..MaxClock
MaxClock == 1
\* Spec takes no character keystroke once characterCount has reached this
MaxChars == 2
\* the key history records at most this many key events
MaxKeys == 3
\* the clock of SpecTiming runs from 0 to this
MaxNow == 3
\* calculateWPM is called with 0..MaxCount characters
MaxCount == 7
\* and with durations of up to this many steps of 64 ms and of one minute
MaxDurationSteps == 3
\* calculateAccuracy is called with totals 0..MaxTotal
MaxTotal == 40
\* longest word list given to the word supply
MaxPool == 3
\* longest word list given to the position arithmetic
MaxWords == 3

----
\* Strings and words.

Undefined == -1

Modes == {"all", "left", "right"}

WORD_COUNT == 25

Space == <<" ">>
Backspace == <<"B", "a", "c", "k", "s", "p", "a", "c", "e">>
Shift == <<"S", "h", "i", "f", "t">>

LEFT_HAND_KEYS ==
    {"q", "w", "e", "r", "t", "a", "s", "d", "f", "g", "z", "x", "c", "v", "b"}

\* mutant: "p" is no key of the right hand
RIGHT_HAND_KEYS_withoutP == {"y", "u", "i", "o", "h", "j", "k", "l", "n", "m"}

RIGHT_HAND_KEYS == {"y", "u", "i", "o", "p", "h", "j", "k", "l", "n", "m"}

UpperCase ==
    <<"A", "B", "C", "D", "E", "F", "G", "H", "I", "J", "K", "L", "M",
      "N", "O", "P", "Q", "R", "S", "T", "U", "V", "W", "X", "Y", "Z">>

LowerCase ==
    <<"a", "b", "c", "d", "e", "f", "g", "h", "i", "j", "k", "l", "m",
      "n", "o", "p", "q", "r", "s", "t", "u", "v", "w", "x", "y", "z">>

\* String.prototype.toLowerCase on one character
toLowerCase(char) ==
    IF \E i \in 1..Len(UpperCase) : UpperCase[i] = char
    THEN LowerCase[CHOOSE i \in 1..Len(UpperCase) : UpperCase[i] = char]
    ELSE char

getHandForKey(key) ==
    LET lowerKey == toLowerCase(key)
    IN  IF lowerKey \in LEFT_HAND_KEYS THEN "Left"
        ELSE IF lowerKey \in RIGHT_HAND_KEYS THEN "Right"
        ELSE "undefined"

Letters == { LowerCase[i] : i \in 1..Len(LowerCase) }

KEY_TO_FINGER ==
    [k \in Letters |->
        CASE k \in {"q", "a", "z"} -> "LeftPinky"
          [] k \in {"w", "s", "x"} -> "LeftRing"
          [] k \in {"e", "d", "c"} -> "LeftMiddle"
          [] k \in {"r", "t", "f", "g", "v", "b"} -> "LeftIndex"
          [] k \in {"y", "u", "h", "j", "n", "m"} -> "RightIndex"
          [] k \in {"i", "k"} -> "RightMiddle"
          [] k \in {"o", "l"} -> "RightRing"
          [] k \in {"p"} -> "RightPinky"]

\* names every object inherits from Object.prototype: KEY_TO_FINGER is a
\* plain object, so a lookup of such a name finds the inherited member
ObjectPrototypeKeys == {"constructor"}

\* mutant: the key is looked up as it is typed
getFingerForKey_caseSensitive(key) ==
    IF key \in DOMAIN KEY_TO_FINGER THEN KEY_TO_FINGER[key]
    ELSE IF key \in ObjectPrototypeKeys THEN "inherited"
    ELSE "undefined"

getFingerForKey(key) ==
    LET lowerKey == toLowerCase(key)
    IN  IF lowerKey \in DOMAIN KEY_TO_FINGER THEN KEY_TO_FINGER[lowerKey]
        ELSE IF lowerKey \in ObjectPrototypeKeys THEN "inherited"
        ELSE "undefined"

KeyLayout(key, finger, hand, row, col) ==
    [key |-> key, finger |-> finger, hand |-> hand, row |-> row, col |-> col]

KEYBOARD_LAYOUT ==
    << KeyLayout("q", "LeftPinky", "Left", 0, 0),
       KeyLayout("w", "LeftRing", "Left", 0, 1),
       KeyLayout("e", "LeftMiddle", "Left", 0, 2),
       KeyLayout("r", "LeftIndex", "Left", 0, 3),
       KeyLayout("t", "LeftIndex", "Left", 0, 4),
       KeyLayout("y", "RightIndex", "Right", 0, 5),
       KeyLayout("u", "RightIndex", "Right", 0, 6),
       KeyLayout("i", "RightMiddle", "Right", 0, 7),
       KeyLayout("o", "RightRing", "Right", 0, 8),
       KeyLayout("p", "RightPinky", "Right", 0, 9),
       KeyLayout("a", "LeftPinky", "Left", 1, 0),
       KeyLayout("s", "LeftRing", "Left", 1, 1),
       KeyLayout("d", "LeftMiddle", "Left", 1, 2),
       KeyLayout("f", "LeftIndex", "Left", 1, 3),
       KeyLayout("g", "LeftIndex", "Left", 1, 4),
       KeyLayout("h", "RightIndex", "Right", 1, 5),
       KeyLayout("j", "RightIndex", "Right", 1, 6),
       KeyLayout("k", "RightMiddle", "Right", 1, 7),
       KeyLayout("l", "RightRing", "Right", 1, 8),
       KeyLayout("z", "LeftPinky", "Left", 2, 0),
       KeyLayout("x", "LeftRing", "Left", 2, 1),
       KeyLayout("c", "LeftMiddle", "Left", 2, 2),
       KeyLayout("v", "LeftIndex", "Left", 2, 3),
       KeyLayout("b", "LeftIndex", "Left", 2, 4),
       KeyLayout("n", "RightIndex", "Right", 2, 5),
       KeyLayout("m", "RightIndex", "Right", 2, 6) >>

\* e.key values delivered to handleKeyDown
Keys == {<<"a">>, <<"x">>, Space, Backspace, Shift}

\* static word lists: short stand-ins for the lists of core/words/wordlist.ts,
\* each made of words of its hand as tests/words.test.ts requires
COMMON_WORDS == << <<"a">>, <<"j">> >>
LEFT_HAND_WORDS == << <<"a">>, <<"d">> >>
RIGHT_HAND_WORDS == << <<"j">>, <<"k">> >>

\* bodies a successful word-list request can deliver: a list with no
\* right-hand word, so that the right-hand filter leaves nothing
RawLists == { << <<"a">> >> }

\* mutant: the empty word is not turned away
isLeftHandWord_emptyIsLeft(word) ==
    \A i \in 1..Len(word) : getHandForKey(toLowerCase(word[i])) = "Left"

isLeftHandWord(word) ==
    IF Len(word) = 0 THEN FALSE
    ELSE \A i \in 1..Len(word) : getHandForKey(toLowerCase(word[i])) = "Left"

isRightHandWord(word) ==
    IF Len(word) = 0 THEN FALSE
    ELSE \A i \in 1..Len(word) : getHandForKey(toLowerCase(word[i])) = "Right"

\* Hand.Left, Hand.Right or undefined
isSingleHandWord(word) ==
    IF isLeftHandWord(word) THEN "Left"
    ELSE IF isRightHandWord(word) THEN "Right"
    ELSE "undefined"

\* mutant: only the right-hand words are dropped
filterLeftHandWords_notRight(words) ==
    LET notRight(word) == ~isRightHandWord(word)
    IN  SelectSeq(words, notRight)

filterLeftHandWords(words) == SelectSeq(words, isLeftHandWord)

filterRightHandWords(words) == SelectSeq(words, isRightHandWord)

Min(a, b) == IF a < b THEN a ELSE b

\* mutant: a word of the pool can be drawn again
getRandomWords_withReplacement(words, count) ==
    IF Len(words) = 0 THEN { << >> }
    ELSE LET n == Len(words)
             k == Min(count, n)
         IN  { [i \in 1..k |-> words[p[i]]] : p \in [1..k -> 1..n] }

\* The set of results getRandomWords can return: the shuffle is driven by
\* Math.random, so any ordering of the pool can come out; the slice keeps
\* the first min(count, length) of it.
getRandomWords(words, count) ==
    IF Len(words) = 0 THEN { << >> }
    ELSE LET n == Len(words)
             k == Min(count, n)
             Inj == { p \in [1..k -> 1..n] :
                        \A i, j \in 1..k : i # j => p[i] # p[j] }
         IN  { [i \in 1..k |-> words[p[i]]] : p \in Inj }

getFallbackWords(mode) ==
    CASE mode = "left" -> getRandomWords(LEFT_HAND_WORDS, WORD_COUNT)
      [] mode = "right" -> getRandomWords(RIGHT_HAND_WORDS, WORD_COUNT)
      [] OTHER -> getRandomWords(COMMON_WORDS, WORD_COUNT)

\* what a successful fetchWordsForMode(mode) resolves to, given the body
fetchWordsForMode(mode, raw) ==
    CASE mode = "left" -> filterLeftHandWords(raw)
      [] mode = "right" -> filterRightHandWords(raw)
      [] OTHER -> raw

\* words.join(" ")
RECURSIVE join(_)
join(words) ==
    IF Len(words) = 0 THEN << >>
    ELSE IF Len(words) = 1 THEN words[1]
    ELSE words[1] \o Space \o join(Tail(words))

\* the loop of positionToIndices from word wordIndex on (0-based)
RECURSIVE positionToIndices_from(_, _, _)
positionToIndices_from(words, wordIndex, remaining) ==
    IF wordIndex >= Len(words)
    THEN [wordIndex |-> Len(words) - 1,
          charIndex |-> IF Len(words) = 0 THEN 0 ELSE Len(words[Len(words)])]
    ELSE LET wordLen == Len(words[wordIndex + 1])
         IN  IF remaining < wordLen
             THEN [wordIndex |-> wordIndex, charIndex |-> remaining]
             ELSE IF wordIndex < Len(words) - 1
             THEN IF remaining - wordLen = 0
                  THEN [wordIndex |-> wordIndex, charIndex |-> wordLen]
                  ELSE positionToIndices_from(words, wordIndex + 1,
                                              remaining - wordLen - 1)
             ELSE positionToIndices_from(words, wordIndex + 1, remaining - wordLen)

\* mutant: a cursor on the space after a word is put at the start of the
\* next word
positionToIndices_spaceIsNextWord(words, position) ==
    LET found == positionToIndices_from(words, 0, position)
    IN  IF /\ found.wordIndex >= 0
           /\ found.wordIndex < Len(words) - 1
           /\ found.charIndex = Len(words[found.wordIndex + 1])
        THEN [wordIndex |-> found.wordIndex + 1, charIndex |-> 0]
        ELSE found

positionToIndices(words, position) == positionToIndices_from(words, 0, position)

\* text.split(" ")
RECURSIVE split(_)
split(text) ==
    IF \A i \in 1..Len(text) : <<text[i]>> # Space THEN <<text>>
    ELSE LET at == CHOOSE i \in 1..Len(text) :
                       /\ <<text[i]>> = Space
                       /\ \A j \in 1..(i - 1) : <<text[j]>> # Space
         IN  <<SubSeq(text, 1, at - 1)>> \o split(SubSeq(text, at + 1, Len(text)))

\* the loop of WordDisplay's currentWordIndex from word i on (0-based)
RECURSIVE WordDisplay_loop(_, _, _, _)
WordDisplay_loop(words, i, offset, currentPosition) ==
    IF i >= Len(words) THEN Len(words) - 1
    ELSE LET endOfWord == offset + Len(words[i + 1])
         IN  IF \/ currentPosition < endOfWord
                \/ (currentPosition = endOfWord /\ i = Len(words) - 1)
             THEN i
             ELSE WordDisplay_loop(words, i + 1, endOfWord + 1, currentPosition)

\* the index WordDisplay takes for the current word (components/WordDisplay)
WordDisplay_currentWordIndex(text, currentPosition) ==
    WordDisplay_loop(split(text), 0, 0, currentPosition)

\* the number the Progress display shows before the "/"
currentWordIndex(st) == positionToIndices(st.words, st.currentPosition).wordIndex

----
\* Timing session (core/timing/wpm.ts).

TimingSession_create ==
    [isRunning |-> FALSE, startTime |-> Undefined, endTime |-> Undefined,
     characterCount |-> 0, errorCount |-> 0]

\* mutant: start leaves the endTime of an earlier stop in place
TimingSession_start_keepsEnd(session, t) ==
    [session EXCEPT !.isRunning = TRUE, !.startTime = t]

TimingSession_start(session, t) ==
    [session EXCEPT !.isRunning = TRUE, !.startTime = t, !.endTime = Undefined]

\* mutant: stop records the end but leaves the session running
TimingSession_stop_keepsRunning(session, t) ==
    [session EXCEPT !.endTime = t]

TimingSession_stop(session, t) ==
    [session EXCEPT !.isRunning = FALSE, !.endTime = t]

\* mutant: the error is counted for the correct character
TimingSession_addCharacter_flipped(session, isCorrect) ==
    [session EXCEPT !.characterCount = session.characterCount + 1,
                    !.errorCount = session.errorCount + (IF isCorrect THEN 1 ELSE 0)]

TimingSession_addCharacter(session, isCorrect) ==
    [session EXCEPT !.characterCount = session.characterCount + 1,
                    !.errorCount = session.errorCount + (IF isCorrect THEN 0 ELSE 1)]

\* mutant: the duration is measured to the clock even after a stop
TimingSession_getDuration_live(session, t) ==
    IF session.startTime = Undefined THEN 0
    ELSE t - session.startTime

TimingSession_getDuration(session, t) ==
    IF session.startTime = Undefined THEN 0
    ELSE (IF session.endTime = Undefined THEN t ELSE session.endTime)
         - session.startTime

----
\* Numbers.  A JavaScript number is an IEEE 754 binary64 value.  A finite
\* one is [sign, man, exp] and stands for sign * man * 2^exp, where man is
\* 0 or has exactly 53 bits; the 53 bits are kept in two limbs,
\* man = hi * 2^27 + lo.  The values of the formulas stay far from the
\* exponent limits, so neither overflow nor subnormal numbers occur.

Limb == 2^27

\* ---- naturals of up to 58 bits in two limbs ----
n2(i) == [hi |-> i \div Limb, lo |-> i % Limb]

n2_shl(n) == [hi |-> 2 * n.hi + (2 * n.lo) \div Limb, lo |-> (2 * n.lo) % Limb]

n2_geq(a, b) == a.hi > b.hi \/ (a.hi = b.hi /\ a.lo >= b.lo)

n2_sub(a, b) ==
    IF a.lo >= b.lo THEN [hi |-> a.hi - b.hi, lo |-> a.lo - b.lo]
    ELSE [hi |-> a.hi - b.hi - 1, lo |-> a.lo + Limb - b.lo]

n2_add(a, b) ==
    [hi |-> a.hi + b.hi + (a.lo + b.lo) \div Limb, lo |-> (a.lo + b.lo) % Limb]

n2_isZero(n) == n.hi = 0 /\ n.lo = 0

n2_odd(n) == n.lo % 2 = 1

\* n * k for a small k
RECURSIVE n2_times(_, _)
n2_times(n, k) ==
    IF k = 0 THEN n2(0)
    ELSE IF k % 2 = 1 THEN n2_add(n, n2_shl(n2_times(n, k \div 2)))
    ELSE n2_shl(n2_times(n, k \div 2))

\* [n |-> floor(n / 2^k), exact |-> no one bit was shifted out]
n2_shrBy(n, k) ==
    IF k <= 0 THEN [n |-> n, exact |-> TRUE]
    ELSE IF k >= 58 THEN [n |-> n2(0), exact |-> n2_isZero(n)]
    ELSE IF k >= 27
    THEN [n |-> [hi |-> 0, lo |-> n.hi \div 2^(k - 27)],
          exact |-> n.lo = 0 /\ n.hi % 2^(k - 27) = 0]
    ELSE [n |-> [hi |-> n.hi \div 2^k,
                 lo |-> (n.hi % 2^k) * 2^(27 - k) + n.lo \div 2^k],
          exact |-> n.lo % 2^k = 0]

\* the number of bits of an integer 1 <= i < 2^31
bitLength(i) == CHOOSE b \in 1..31 : 2^(b - 1) <= i /\ (b = 31 \/ i < 2^b)

\* the number of zero bits at the low end of n # 0
trailingZeros(n) ==
    IF n.lo = 0 THEN 27 + (CHOOSE k \in 0..26 : n.hi % 2^(k + 1) = 2^k)
    ELSE CHOOSE k \in 0..26 : n.lo % 2^(k + 1) = 2^k

\* ---- binary64 ----
f64_zero == [sign |-> 1, man |-> n2(0), exp |-> 0]

\* round sign * man * 2^exp (plus a rest below the last bit of man when
\* sticky) to 53 bits, to nearest, ties to even; man has 54 to 58 bits
f64_round(sign, man, exp, sticky) ==
    LET excess == CHOOSE e \in 1..5 : man.hi \div 2^(25 + e) = 1
        upper == n2_shrBy(man, excess - 1)
        kept == n2_shrBy(upper.n, 1).n
        roundUp == n2_odd(upper.n) /\ (sticky \/ ~upper.exact \/ n2_odd(kept))
        up == IF roundUp THEN n2_add(kept, n2(1)) ELSE kept
    IN  IF up.hi >= Limb \div 2
        THEN [sign |-> sign, man |-> n2_shrBy(up, 1).n, exp |-> exp + excess + 1]
        ELSE [sign |-> sign, man |-> up, exp |-> exp + excess]

\* the number value of an integer below 2^31 in size
Number(i) ==
    IF i = 0 THEN f64_zero
    ELSE LET a == IF i < 0 THEN 0 - i ELSE i
             s == 53 - bitLength(a)
         IN  [sign |-> IF i < 0 THEN -1 ELSE 1,
              man |-> IF s >= 27
                      THEN [hi |-> a * 2^(s - 27), lo |-> 0]
                      ELSE [hi |-> a \div 2^(27 - s),
                            lo |-> (a % 2^(27 - s)) * 2^s],
              exp |-> 0 - s]

\* k more bits of the quotient by restoring division: s.q holds the bits
\* found so far and s.rest what is left to divide by d
RECURSIVE f64_divBits(_, _, _)
f64_divBits(s, d, k) ==
    IF k = 0 THEN s
    ELSE IF n2_geq(s.rest, d)
    THEN f64_divBits([rest |-> n2_shl(n2_sub(s.rest, d)),
                      q |-> n2_add(n2_shl(s.q), n2(1))], d, k - 1)
    ELSE f64_divBits([rest |-> n2_shl(s.rest), q |-> n2_shl(s.q)], d, k - 1)

\* x / y for y # 0
Divide(x, y) ==
    IF n2_isZero(x.man) THEN [f64_zero EXCEPT !.sign = x.sign * y.sign]
    ELSE LET r == f64_divBits([rest |-> x.man, q |-> n2(0)], y.man, 55)
         IN  f64_round(x.sign * y.sign, r.q, x.exp - y.exp - 54,
                       ~n2_isZero(r.rest))

\* x * y for a y of at most five significant bits, as the 100 of
\* calculateAccuracy is
Multiply(x, y) ==
    IF n2_isZero(x.man) \/ n2_isZero(y.man)
    THEN [f64_zero EXCEPT !.sign = x.sign * y.sign]
    ELSE LET tz == trailingZeros(y.man)
             odd == n2_shrBy(y.man, tz).n.lo
         IN  IF odd = 1
             THEN [sign |-> x.sign * y.sign, man |-> x.man,
                   exp |-> x.exp + y.exp + tz]
             ELSE f64_round(x.sign * y.sign, n2_times(x.man, odd),
                            x.exp + y.exp + tz, FALSE)

\* Math.round: the integer nearest to x, the upper one of two equally near
Math_round(x) ==
    IF n2_isZero(x.man) THEN 0
    ELSE LET twice == n2_shrBy(x.man, 0 - x.exp - 1)
             T == twice.n.hi * Limb + twice.n.lo
         IN  IF x.sign = 1 THEN (T + 1) \div 2
             ELSE IF twice.exact THEN 0 - (T \div 2)
             ELSE 0 - ((T + 1) \div 2)

Math_max(a, b) == IF a > b THEN a ELSE b

\* ---- the formulas of core/timing/wpm.ts ----
CHARS_PER_WORD == 5

\* the outcome of an Effect that was run
Success(value) == [tag |-> "Success", value |-> value]
Failure(error) == [tag |-> "Failure", error |-> error]

\* mutant: minutes are divided by words
calculateWPM_swapped(characterCount, durationMs) ==
    IF durationMs <= 0 THEN Failure("TimingError")
    ELSE IF characterCount = 0 THEN Success(0)
    ELSE LET words == Divide(Number(characterCount), Number(CHARS_PER_WORD))
             minutes == Divide(Number(durationMs), Number(60000))
         IN  Success(Math_round(Divide(minutes, words)))

calculateWPM(characterCount, durationMs) ==
    IF durationMs <= 0 THEN Failure("TimingError")
    ELSE IF characterCount = 0 THEN Success(0)
    ELSE LET words == Divide(Number(characterCount), Number(CHARS_PER_WORD))
             minutes == Divide(Number(durationMs), Number(60000))
         IN  Success(Math_round(Divide(words, minutes)))

calculateAccuracy(totalCharacters, errorCount) ==
    IF totalCharacters = 0 THEN Failure("TimingError")
    ELSE LET accuracy ==
                 Multiply(Divide(Number(totalCharacters - errorCount),
                                 Number(totalCharacters)),
                          Number(100))
         IN  Success(Math_max(0, Math_round(accuracy)))

----
\* TypingTest component (unnamed/part_002).

NoTypedChars == [p \in {} |-> TRUE]

\* mutant: a new session is loading whether or not its list is cached
initialState_alwaysLoading(mode, cache) ==
    LET cached == mode \in DOMAIN cache
        pool == IF cached THEN getRandomWords(cache[mode], WORD_COUNT)
                ELSE getFallbackWords(mode)
    IN  { [mode |-> mode,
           words |-> ws,
           text |-> join(ws),
           currentPosition |-> 0,
           typedChars |-> NoTypedChars,
           session |-> TimingSession_create,
           isComplete |-> FALSE,
           isLoading |-> TRUE,
           fetchError |-> "null"] : ws \in pool }

\* the set of states initialState(mode) can return under cache `cache`
initialState(mode, cache) ==
    LET cached == mode \in DOMAIN cache
        pool == IF cached THEN getRandomWords(cache[mode], WORD_COUNT)
                ELSE getFallbackWords(mode)
    IN  { [mode |-> mode,
           words |-> ws,
           text |-> join(ws),
           currentPosition |-> 0,
           typedChars |-> NoTypedChars,
           session |-> TimingSession_create,
           isComplete |-> FALSE,
           isLoading |-> ~cached,
           fetchError |-> "null"] : ws \in pool }

\* mutant: every keystroke starts the timer anew
startTimer_restarts(prev, t) ==
    [prev EXCEPT !.session = TimingSession_start(prev.session, t)]

\* updater of lines 137-142: start the timer on the first keystroke
startTimer(prev, t) ==
    IF ~prev.session.isRunning /\ ~prev.isComplete
    THEN [prev EXCEPT !.session = TimingSession_start(prev.session, t)]
    ELSE prev

\* mutant: the cursor steps back, the log entry stays
backspaceUpdater_keepsLog(prev) ==
    IF prev.currentPosition > 0
    THEN [prev EXCEPT !.currentPosition = prev.currentPosition - 1]
    ELSE prev

\* mutant: the erased character is taken back out of characterCount
backspaceUpdater_uncounts(prev) ==
    IF prev.currentPosition > 0
    THEN [prev EXCEPT
            !.currentPosition = prev.currentPosition - 1,
            !.typedChars = [p \in (DOMAIN prev.typedChars) \ {prev.currentPosition - 1}
                              |-> prev.typedChars[p]],
            !.session.characterCount = prev.session.characterCount - 1]
    ELSE prev

\* updater of lines 146-157
backspaceUpdater(prev) ==
    IF prev.currentPosition > 0
    THEN [prev EXCEPT
            !.currentPosition = prev.currentPosition - 1,
            !.typedChars = [p \in (DOMAIN prev.typedChars) \ {prev.currentPosition - 1}
                              |-> prev.typedChars[p]]]
    ELSE prev

\* mutant: completion is tested with > instead of >=
characterUpdater_lateComplete(prev, key, t) ==
    IF prev.currentPosition >= Len(prev.text) THEN prev
    ELSE LET expectedChar == prev.text[prev.currentPosition + 1]
             isCorrect == key = <<expectedChar>>
             newTypedChars ==
                 [p \in (DOMAIN prev.typedChars) \cup {prev.currentPosition} |->
                     IF p = prev.currentPosition THEN isCorrect
                     ELSE prev.typedChars[p]]
             newSession == TimingSession_addCharacter(prev.session, isCorrect)
             nextPosition == prev.currentPosition + 1
         IN  IF nextPosition > Len(prev.text)
             THEN [prev EXCEPT !.currentPosition = nextPosition,
                               !.typedChars = newTypedChars,
                               !.session = TimingSession_stop(newSession, t),
                               !.isComplete = TRUE]
             ELSE [prev EXCEPT !.currentPosition = nextPosition,
                               !.typedChars = newTypedChars,
                               !.session = newSession]

\* mutant: the outcome is logged at the next position
characterUpdater_logsNext(prev, key, t) ==
    IF prev.currentPosition >= Len(prev.text) THEN prev
    ELSE LET expectedChar == prev.text[prev.currentPosition + 1]
             isCorrect == key = <<expectedChar>>
             nextPosition == prev.currentPosition + 1
             newTypedChars ==
                 [p \in (DOMAIN prev.typedChars) \cup {nextPosition} |->
                     IF p = nextPosition THEN isCorrect
                     ELSE prev.typedChars[p]]
             newSession == TimingSession_addCharacter(prev.session, isCorrect)
         IN  IF nextPosition >= Len(prev.text)
             THEN [prev EXCEPT !.currentPosition = nextPosition,
                               !.typedChars = newTypedChars,
                               !.session = TimingSession_stop(newSession, t),
                               !.isComplete = TRUE]
             ELSE [prev EXCEPT !.currentPosition = nextPosition,
                               !.typedChars = newTypedChars,
                               !.session = newSession]

\* updater of lines 164-196
\* mutant: the character is logged and passed, but not counted
characterUpdater_skipsCount(prev, key, t) ==
    IF prev.currentPosition >= Len(prev.text) THEN prev
    ELSE LET expectedChar == prev.text[prev.currentPosition + 1]
             isCorrect == key = <<expectedChar>>
             newTypedChars ==
                 [p \in (DOMAIN prev.typedChars) \cup {prev.currentPosition} |->
                     IF p = prev.currentPosition THEN isCorrect
                     ELSE prev.typedChars[p]]
             nextPosition == prev.currentPosition + 1
         IN  IF nextPosition >= Len(prev.text)
             THEN [prev EXCEPT !.currentPosition = nextPosition,
                               !.typedChars = newTypedChars,
                               !.session = TimingSession_stop(prev.session, t),
                               !.isComplete = TRUE]
             ELSE [prev EXCEPT !.currentPosition = nextPosition,
                               !.typedChars = newTypedChars]

characterUpdater(prev, key, t) ==
    IF prev.currentPosition >= Len(prev.text) THEN prev
    ELSE LET expectedChar == prev.text[prev.currentPosition + 1]
             isCorrect == key = <<expectedChar>>
             newTypedChars ==
                 [p \in (DOMAIN prev.typedChars) \cup {prev.currentPosition} |->
                     IF p = prev.currentPosition THEN isCorrect
                     ELSE prev.typedChars[p]]
             newSession == TimingSession_addCharacter(prev.session, isCorrect)
             nextPosition == prev.currentPosition + 1
         IN  IF nextPosition >= Len(prev.text)
             THEN [prev EXCEPT !.currentPosition = nextPosition,
                               !.typedChars = newTypedChars,
                               !.session = TimingSession_stop(newSession, t),
                               !.isComplete = TRUE]
             ELSE [prev EXCEPT !.currentPosition = nextPosition,
                               !.typedChars = newTypedChars,
                               !.session = newSession]

\* mutant: the early return on isComplete is missing
handleKeyDown_noCompleteGuard(st, key, t) ==
    LET started == startTimer(st, t)
    IN  IF key = Backspace THEN backspaceUpdater(started)
        ELSE IF Len(key) # 1 THEN started
        ELSE characterUpdater(started, key, t)

\* the state after handleKeyDown has run on state st with e.key = key;
\* t is what Date.now() returns while the queued updaters run
\* mutant: keystrokes are dropped until the words have arrived
handleKeyDown_waitsForWords(st, key, t) ==
    IF st.isComplete \/ st.isLoading THEN st
    ELSE LET started == startTimer(st, t)
         IN  IF key = Backspace THEN backspaceUpdater(started)
             ELSE IF Len(key) # 1 THEN started
             ELSE characterUpdater(started, key, t)

handleKeyDown(st, key, t) ==
    IF st.isComplete THEN st
    ELSE LET started == startTimer(st, t)
         IN  IF key = Backspace THEN backspaceUpdater(started)
             ELSE IF Len(key) # 1 THEN started
             ELSE characterUpdater(started, key, t)

\* the values Date.now() can return to a handler of session `session`
Clock(session) ==
    { t \in 0..MaxClock : t >= session.startTime /\ t >= session.endTime }

KeyKind(key) ==
    IF key = Backspace THEN "Backspace"
    ELSE IF Len(key) # 1 THEN "otherKey"
    ELSE "char"

\* Effect.runSync of an Effect with outcome `outcome`; it throws on a
\* Failure, which leaves the value undefined
runSync(outcome) == outcome.value

\* mutant: the duration goes to calculateWPM as it is
statsCalls_noFloor(session, t) ==
    LET duration == TimingSession_getDuration(session, t)
        correctChars == session.characterCount - session.errorCount
    IN  (IF session.characterCount > 0
         THEN {[fn |-> "calculateWPM", a |-> session.characterCount, b |-> duration]}
         ELSE {})
        \cup (IF correctChars > 0
              THEN {[fn |-> "calculateWPM", a |-> correctChars, b |-> duration]}
              ELSE {})
        \cup (IF session.characterCount > 0
              THEN {[fn |-> "calculateAccuracy", a |-> session.characterCount,
                     b |-> session.errorCount]}
              ELSE {})

\* the calls of the formulas a render makes (lines 250-265) when Date.now()
\* returns t, each with its two arguments
statsCalls(session, t) ==
    LET duration == TimingSession_getDuration(session, t)
        correctChars == session.characterCount - session.errorCount
    IN  (IF session.characterCount > 0
         THEN {[fn |-> "calculateWPM", a |-> session.characterCount,
                b |-> Math_max(duration, 1)]}
         ELSE {})
        \cup (IF correctChars > 0
              THEN {[fn |-> "calculateWPM", a |-> correctChars,
                     b |-> Math_max(duration, 1)]}
              ELSE {})
        \cup (IF session.characterCount > 0
              THEN {[fn |-> "calculateAccuracy", a |-> session.characterCount,
                     b |-> session.errorCount]}
              ELSE {})

\* mutant: net WPM is rated from the errors, not from the correct characters
stats_netFromErrors(session, t) ==
    LET duration == TimingSession_getDuration(session, t)
    IN  [grossWpm |->
             IF session.characterCount > 0
             THEN runSync(calculateWPM(session.characterCount, Math_max(duration, 1)))
             ELSE 0,
         netWpm |->
             IF session.errorCount > 0
             THEN runSync(calculateWPM(session.errorCount, Math_max(duration, 1)))
             ELSE 0,
         accuracy |->
             IF session.characterCount > 0
             THEN runSync(calculateAccuracy(session.characterCount,
                                            session.errorCount))
             ELSE 100]

\* the statistics that render displays
stats(session, t) ==
    LET duration == TimingSession_getDuration(session, t)
        correctChars == session.characterCount - session.errorCount
    IN  [grossWpm |->
             IF session.characterCount > 0
             THEN runSync(calculateWPM(session.characterCount, Math_max(duration, 1)))
             ELSE 0,
         netWpm |->
             IF correctChars > 0
             THEN runSync(calculateWPM(correctChars, Math_max(duration, 1)))
             ELSE 0,
         accuracy |->
             IF session.characterCount > 0
             THEN runSync(calculateAccuracy(session.characterCount,
                                            session.errorCount))
             ELSE 100]

----
\* Fetches in flight.  A fetch is [mode, by, cancelled]: the mode it was
\* issued for (the closure's state.mode), who issued it (the mode-change
\* effect or handleRetry) and the effect's `cancelled` flag.  Fetches in
\* flight that agree on all three are not told apart, and a cancelled
\* fetch, which never uses its mode again, is kept without it.

\* cleanup of the previous effect run: cancelled = true
cancelEffect(fs) ==
    { IF f.by = "effect" THEN [mode |-> "-", by |-> "effect", cancelled |-> TRUE]
      ELSE f : f \in fs }

\* mutant: the new words put the cursor back to the start
withWords_rewinds(prev, ws) ==
    [prev EXCEPT !.words = ws, !.text = join(ws), !.currentPosition = 0]

withWords(prev, ws) == [prev EXCEPT !.words = ws, !.text = join(ws)]

cacheSet(cache, mode, list) ==
    [m \in (DOMAIN cache) \cup {mode} |-> IF m = mode THEN list ELSE cache[m]]

cacheDelete(cache, mode) ==
    [m \in (DOMAIN cache) \ {mode} |-> cache[m]]

----
\* Actions.

\* no call of a formula is under way
NoCall == [fn |-> "none", a |-> 0, b |-> 0, returned |-> FALSE, result |-> << >>]

\* the part of the state the component does not use
CoreIdle ==
    /\ timing = TimingSession_create
    /\ now = 0
    /\ call = NoCall

\* mount: useState(() => initialState()) and the first run of the effect
Init ==
    /\ wordCache = [m \in {} |-> << >>]
    /\ state \in initialState("all", wordCache)
    /\ fetches = {[mode |-> "all", by |-> "effect", cancelled |-> FALSE]}
    /\ keys = << >>
    /\ CoreIdle

\* onKeyDown of the hidden input
KeyDown(key) ==
    /\ \E t \in Clock(state.session) : state' = handleKeyDown(state, key, t)
    /\ UNCHANGED <<wordCache, fetches>>

\* mutant: the new session inherits the timing session of the old one
handleModeChange_keepsSession(mode) ==
    /\ \E s0 \in initialState(mode, wordCache) :
         LET s1 == [s0 EXCEPT !.session = state.session]
         IN  IF mode = state.mode
             THEN /\ state' = s1
                  /\ UNCHANGED fetches
             ELSE IF mode \in DOMAIN wordCache
             THEN /\ \E ws \in getRandomWords(wordCache[mode], WORD_COUNT) :
                        state' = [withWords(s1, ws) EXCEPT !.isLoading = FALSE,
                                                           !.fetchError = "null"]
                  /\ fetches' = cancelEffect(fetches)
             ELSE /\ state' = [s1 EXCEPT !.isLoading = TRUE, !.fetchError = "null"]
                  /\ fetches' = cancelEffect(fetches)
                        \cup {[mode |-> mode, by |-> "effect", cancelled |-> FALSE]}
    /\ UNCHANGED wordCache

\* handleModeChange(mode), then the effect of lines 268-317 when state.mode
\* has changed
handleModeChange(mode) ==
    /\ \E s0 \in initialState(mode, wordCache) :
         IF mode = state.mode
         THEN /\ state' = s0
              /\ UNCHANGED fetches
         ELSE IF mode \in DOMAIN wordCache
         THEN /\ \E ws \in getRandomWords(wordCache[mode], WORD_COUNT) :
                    state' = [withWords(s0, ws) EXCEPT !.isLoading = FALSE,
                                                       !.fetchError = "null"]
              /\ fetches' = cancelEffect(fetches)
         ELSE /\ state' = [s0 EXCEPT !.isLoading = TRUE, !.fetchError = "null"]
              /\ fetches' = cancelEffect(fetches)
                    \cup {[mode |-> mode, by |-> "effect", cancelled |-> FALSE]}
    /\ UNCHANGED wordCache

handleRestart ==
    /\ state' \in initialState(state.mode, wordCache)
    /\ UNCHANGED <<wordCache, fetches>>

\* the retry button of OfflineNotice, rendered when !isLoading && fetchError
handleRetry ==
    /\ ~state.isLoading
    /\ state.fetchError # "null"
    /\ wordCache' = cacheDelete(wordCache, state.mode)
    /\ state' = [state EXCEPT !.isLoading = TRUE, !.fetchError = "null"]
    /\ fetches' = fetches
          \cup {[mode |-> state.mode, by |-> "retry", cancelled |-> FALSE]}

\* .then of a fetch in flight (lines 288-299 and 225-235)
fetchThen(f, raw) ==
    /\ f \in fetches
    /\ LET fetchedWords == fetchWordsForMode(f.mode, raw)
       IN  IF f.by = "effect"
           THEN IF ~f.cancelled
                THEN /\ wordCache' = cacheSet(wordCache, f.mode, fetchedWords)
                     /\ \E newWords \in getRandomWords(fetchedWords, WORD_COUNT) :
                           state' = [withWords(state, newWords) EXCEPT !.isLoading = FALSE]
                ELSE UNCHANGED <<state, wordCache>>
           ELSE /\ wordCache' = cacheSet(wordCache, f.mode, fetchedWords)
                /\ \E newWords \in getRandomWords(fetchedWords, WORD_COUNT) :
                      state' = [withWords(state, newWords) EXCEPT !.isLoading = FALSE,
                                                                  !.fetchError = "null"]
    /\ fetches' = fetches \ {f}

\* .catch of a fetch in flight (lines 300-312 and 236-242)
fetchCatch(f) ==
    /\ f \in fetches
    /\ IF f.by = "effect"
       THEN IF ~f.cancelled
            THEN \E fallback \in getFallbackWords(f.mode) :
                    state' = [withWords(state, fallback) EXCEPT !.isLoading = FALSE,
                                                                !.fetchError = "offline"]
            ELSE UNCHANGED state
       ELSE state' = [state EXCEPT !.isLoading = FALSE, !.fetchError = "offline"]
    /\ fetches' = fetches \ {f}
    /\ UNCHANGED wordCache

FetchRecs ==
    [mode : Modes, by : {"effect", "retry"}, cancelled : {FALSE}]
    \cup {[mode |-> "-", by |-> "effect", cancelled |-> TRUE]}

\* The application: every handler, under any interleaving.
Next ==
    \/ \E key \in Keys :
          /\ KeyKind(key) = "char" => state.session.characterCount < MaxChars
          /\ KeyDown(key)
          /\ UNCHANGED <<keys, timing, now, call>>
    \/ \E mode \in Modes : handleModeChange(mode) /\ UNCHANGED <<keys, timing, now, call>>
    \/ handleRestart /\ UNCHANGED <<keys, timing, now, call>>
    \/ handleRetry /\ UNCHANGED <<keys, timing, now, call>>
    \/ \E f \in FetchRecs, raw \in RawLists : fetchThen(f, raw) /\ UNCHANGED <<keys, timing, now, call>>
    \/ \E f \in FetchRecs : fetchCatch(f) /\ UNCHANGED <<keys, timing, now, call>>

Spec == Init /\ [][Next]_vars

----
\* A session under keystrokes alone: it starts from any freshly initialized
\* session (static words, or words of a cached list) and records the key
\* events it is given.

\* the word list of the scenarios of the specification, text "ab cd"
ScenarioWords == << <<"a", "b">>, <<"c", "d">> >>

InitKeys ==
    /\ \E mode \in Modes, raw \in RawLists \cup {ScenarioWords}, cached \in BOOLEAN :
          /\ wordCache = IF cached
                         THEN [m \in {mode} |-> fetchWordsForMode(mode, raw)]
                         ELSE [m \in {} |-> << >>]
          /\ state \in initialState(mode, wordCache)
          /\ fetches = IF cached THEN {}
                       ELSE {[mode |-> mode, by |-> "effect", cancelled |-> FALSE]}
    /\ keys = << >>
    /\ CoreIdle

NextKeys ==
    \E key \in Keys :
        /\ Len(keys) < MaxKeys
        /\ KeyDown(key)
        /\ keys' = Append(keys, key)
        /\ UNCHANGED <<timing, now, call>>

SpecKeys == InitKeys /\ [][NextKeys]_vars

----
\* The timing session on its own: create, start, stop and addCharacter in
\* any order, under a clock that advances.

InitTiming ==
    /\ timing = TimingSession_create
    /\ now = 0
    /\ call = NoCall
    /\ wordCache = [m \in {} |-> << >>]
    /\ state \in initialState("all", wordCache)
    /\ fetches = {}
    /\ keys = << >>

create == timing' = TimingSession_create /\ UNCHANGED now

start == timing' = TimingSession_start(timing, now) /\ UNCHANGED now

stop == timing' = TimingSession_stop(timing, now) /\ UNCHANGED now

addCharacter(isCorrect) ==
    /\ timing.characterCount < MaxChars
    /\ timing' = TimingSession_addCharacter(timing, isCorrect)
    /\ UNCHANGED now

Tick ==
    /\ now < MaxNow
    /\ now' = now + 1
    /\ UNCHANGED timing

NextTiming ==
    /\ \/ create
       \/ start
       \/ stop
       \/ \E isCorrect \in BOOLEAN : addCharacter(isCorrect)
       \/ Tick
    /\ UNCHANGED <<state, wordCache, fetches, keys, call>>

SpecTiming == InitTiming /\ [][NextTiming]_vars

----
\* The formulas of wpm.ts on their own: one call, with arguments drawn from
\* bounded sets, and its outcome.

Counts == 0..MaxCount

Durations ==
    {0 - 1, 0, 1}
    \cup { 64 * k : k \in 1..MaxDurationSteps }
    \cup { 60000 * k : k \in 1..MaxDurationSteps }

Totals == 0..MaxTotal

ErrorCounts == 0..(MaxTotal + 1)

InitCalc ==
    /\ call \in [fn : {"calculateWPM"}, a : Counts, b : Durations,
                  returned : {FALSE}, result : {<< >>}]
            \cup [fn : {"calculateAccuracy"}, a : Totals, b : ErrorCounts,
                    returned : {FALSE}, result : {<< >>}]
    /\ timing = TimingSession_create
    /\ now = 0
    /\ wordCache = [m \in {} |-> << >>]
    /\ state = CHOOSE s0 \in initialState("all", wordCache) : TRUE
    /\ fetches = {}
    /\ keys = << >>

runCalculateWPM ==
    /\ call.fn = "calculateWPM"
    /\ ~call.returned
    /\ call' = [call EXCEPT !.returned = TRUE,
                              !.result = calculateWPM(call.a, call.b)]

runCalculateAccuracy ==
    /\ call.fn = "calculateAccuracy"
    /\ ~call.returned
    /\ call' = [call EXCEPT !.returned = TRUE,
                              !.result = calculateAccuracy(call.a, call.b)]

NextCalc ==
    /\ runCalculateWPM \/ runCalculateAccuracy
    /\ UNCHANGED <<state, wordCache, fetches, keys, timing, now>>

SpecCalc == InitCalc /\ [][NextCalc]_vars

----
\* The word supply on its own: one call of a function of filter.ts,
\* monkeytype.ts or of getRandomWords, with its argument drawn from bounded
\* sets, and its outcome.

\* JavaScript values a response body can hold under `words`
Array(items) == [type |-> "array", items |-> items]
UndefinedValue == [type |-> "undefined", items |-> << >>]

\* an Effect that ends in a defect: an exception thrown inside Effect.gen
\* or inside the function given to Effect.map
Die(defect) == [tag |-> "Die", defect |-> defect]

\* words of each kind: left-hand, right-hand in upper case, mixed, empty
PoolWords == { <<"a">>, <<"J">>, <<"a", "j">>, << >> }

Pools == UNION { [1..n -> PoolWords] : n \in 0..MaxPool }

WordSamples ==
    PoolWords
    \cup { <<"A">>, <<"j">>,
           <<"s", "t", "a", "r", "e">>, <<"S", "t", "a", "r", "e">>,
           <<"S", "T", "A", "R", "E">>,
           <<"p", "i", "n", "k">>, <<"P", "I", "N", "K">>,
           <<"h", "e", "l", "l", "o">>, <<"H", "e", "l", "l", "o">>,
           <<"a", "1">>, <<"j", ";">>, <<"1">>, <<" ">>, <<"a", " ">> }

\* what response.json() resolves to: an object with a words array, an
\* object without `words`, or null
Bodies ==
    { [json |-> "object", words |-> Array(ws)] : ws \in Pools }
    \cup { [json |-> "object", words |-> UndefinedValue],
           [json |-> "null", words |-> UndefinedValue] }

\* how the network answers fetch(url): the request rejects, the response
\* is not ok, response.json() rejects, or the body is decoded
Responses ==
    LET none == [json |-> "null", words |-> UndefinedValue]
    IN  { [fetch |-> "rejects", ok |-> FALSE, json |-> "rejects", data |-> none],
          [fetch |-> "resolves", ok |-> FALSE, json |-> "rejects", data |-> none],
          [fetch |-> "resolves", ok |-> TRUE, json |-> "rejects", data |-> none] }
        \cup { [fetch |-> "resolves", ok |-> TRUE, json |-> "resolves", data |-> b] :
                 b \in Bodies }

fetchMonkeyTypeWords(net) ==
    IF net.fetch = "rejects" THEN Failure("FetchError")
    ELSE IF ~net.ok THEN Failure("FetchError")
    ELSE IF net.json = "rejects" THEN Failure("FetchError")
    ELSE IF net.data.json = "null" THEN Die("TypeError")
    ELSE Success(net.data.words)

fetchLeftHandWords(net) ==
    LET fetched == fetchMonkeyTypeWords(net)
    IN  IF fetched.tag # "Success" THEN fetched
        ELSE IF fetched.value.type # "array" THEN Die("TypeError")
        ELSE Success(Array(filterLeftHandWords(fetched.value.items)))

fetchRightHandWords(net) ==
    LET fetched == fetchMonkeyTypeWords(net)
    IN  IF fetched.tag # "Success" THEN fetched
        ELSE IF fetched.value.type # "array" THEN Die("TypeError")
        ELSE Success(Array(filterRightHandWords(fetched.value.items)))

fetchAllWords(net) == fetchMonkeyTypeWords(net)

WordCalls(fns, as, bs) ==
    [fn : fns, a : as, b : bs, returned : {FALSE}, result : {<< >>}]

InitWords ==
    /\ call \in WordCalls({"getRandomWords"}, Pools, 0..(MaxPool + 1))
            \cup WordCalls({"isSingleHandWord"}, WordSamples, {0})
            \cup WordCalls({"filterLeftHandWords", "filterRightHandWords"}, Pools, {0})
            \cup WordCalls({"fetchMonkeyTypeWords", "fetchLeftHandWords",
                            "fetchRightHandWords", "fetchAllWords"}, Responses, {0})
    /\ timing = TimingSession_create
    /\ now = 0
    /\ wordCache = [m \in {} |-> << >>]
    /\ state = CHOOSE s0 \in initialState("all", wordCache) : TRUE
    /\ fetches = {}
    /\ keys = << >>

returns(fn, result) ==
    /\ call.fn = fn
    /\ ~call.returned
    /\ call' = [call EXCEPT !.returned = TRUE, !.result = result]

\* the argument is copied before it is shuffled, so `a` stays as it is
runGetRandomWords ==
    /\ call.fn = "getRandomWords"
    /\ \E result \in getRandomWords(call.a, call.b) : returns("getRandomWords", result)

runIsSingleHandWord == returns("isSingleHandWord", isSingleHandWord(call.a))

runFilterLeftHandWords == returns("filterLeftHandWords", filterLeftHandWords(call.a))

runFilterRightHandWords == returns("filterRightHandWords", filterRightHandWords(call.a))

runFetchMonkeyTypeWords == returns("fetchMonkeyTypeWords", fetchMonkeyTypeWords(call.a))

runFetchLeftHandWords == returns("fetchLeftHandWords", fetchLeftHandWords(call.a))

runFetchRightHandWords == returns("fetchRightHandWords", fetchRightHandWords(call.a))

runFetchAllWords == returns("fetchAllWords", fetchAllWords(call.a))

NextWords ==
    /\ \/ runGetRandomWords
       \/ runIsSingleHandWord
       \/ runFilterLeftHandWords
       \/ runFilterRightHandWords
       \/ runFetchMonkeyTypeWords
       \/ runFetchLeftHandWords
       \/ runFetchRightHandWords
       \/ runFetchAllWords
    /\ UNCHANGED <<state, wordCache, fetches, keys, timing, now>>

SpecWords == InitWords /\ [][NextWords]_vars

----
\* The position arithmetic on its own: one call of positionToIndices, or
\* one rendering of WordDisplay, for a word list and a cursor position.

\* words of length 0, 1 and 2
IndexWords == { << >>, <<"a">>, <<"a", "b">> }

WordLists == UNION { [1..n -> IndexWords] : n \in 0..MaxWords }

IndexCalls ==
    UNION { WordCalls({"positionToIndices", "WordDisplay"}, {ws}, 0..Len(join(ws))) :
              ws \in WordLists }

InitIndices ==
    /\ call \in IndexCalls
    /\ timing = TimingSession_create
    /\ now = 0
    /\ wordCache = [m \in {} |-> << >>]
    /\ state = CHOOSE s0 \in initialState("all", wordCache) : TRUE
    /\ fetches = {}
    /\ keys = << >>

runPositionToIndices ==
    returns("positionToIndices", positionToIndices(call.a, call.b))

\* WordDisplay is given text = words.join(" ") and the cursor
renderWordDisplay ==
    returns("WordDisplay", WordDisplay_currentWordIndex(join(call.a), call.b))

NextIndices ==
    /\ runPositionToIndices \/ renderWordDisplay
    /\ UNCHANGED <<state, wordCache, fetches, keys, timing, now>>

SpecIndices == InitIndices /\ [][NextIndices]_vars

----
\* The keyboard tables on their own: one call of getHandForKey or of
\* getFingerForKey for a key.

\* the letters in both cases, and keys that are no letters
KeyboardKeys ==
    Letters
    \cup { UpperCase[i] : i \in 1..Len(UpperCase) }
    \cup { "0", "1", "9", " ", ";", ",", ".", "-", "/", "[", "'", "constructor" }

InitKeyboard ==
    /\ call \in WordCalls({"getHandForKey", "getFingerForKey"}, KeyboardKeys, {0})
    /\ timing = TimingSession_create
    /\ now = 0
    /\ wordCache = [m \in {} |-> << >>]
    /\ state = CHOOSE s0 \in initialState("all", wordCache) : TRUE
    /\ fetches = {}
    /\ keys = << >>

runGetHandForKey == returns("getHandForKey", getHandForKey(call.a))

runGetFingerForKey == returns("getFingerForKey", getFingerForKey(call.a))

NextKeyboard ==
    /\ runGetHandForKey \/ runGetFingerForKey
    /\ UNCHANGED <<state, wordCache, fetches, keys, timing, now>>

SpecKeyboard == InitKeyboard /\ [][NextKeyboard]_vars

----
\* Properties.

pos == state.currentPosition
textLen == Len(state.text)
CharKeys == { key \in Keys : KeyKind(key) = "char" }
AllChars(ks) == \A i \in 1..Len(ks) : KeyKind(ks[i]) = "char"
ScenarioText == join(ScenarioWords)

\* C1: in every reachable state 0 <= currentPosition <= length(text), and
\* currentPosition = length(text) exactly when isComplete is true.
C1_CursorWithinText ==
    /\ 0 <= pos
    /\ pos <= textLen
    /\ (pos = textLen) <=> state.isComplete

\* C2: a position is a key of typedChars if and only if it is below
\* currentPosition.
C2_LogIsBehindCursor == DOMAIN state.typedChars = 0..(pos - 1)

\* a backspace has acted (more characters counted than the cursor shows)
\* and an entry is still behind the cursor
C2_Witness ==
    /\ pos >= 1
    /\ state.session.characterCount > pos

\* C3: the text of a session changes only in a step of handleModeChange or
\* handleRestart; no completion of a fetch replaces it.
C3_TextOnlyAtInitialize ==
    [][state'.text # state.text =>
          ((\E mode \in Modes : handleModeChange(mode)) \/ handleRestart)]_vars

\* C4: a key event on a complete session leaves the session state as it is.
C4_CompleteIsFrozen ==
    [][(state.isComplete /\ \E key \in Keys : KeyDown(key)) => state' = state]_vars

\* the one-character text was completed by the first key, and a backspace
\* and a character came after it
C4_Witness ==
    /\ state.isComplete
    /\ textLen = 1
    /\ Len(keys) = 3
    /\ KeyKind(keys[1]) = "char"
    /\ keys[2] = Backspace
    /\ keys[3] = <<"x">>

C6_CharacterStep ==
    [][\A key \in CharKeys :
          (~state.isComplete /\ pos < textLen /\ KeyDown(key)) =>
              LET isCorrect == key = <<state.text[pos + 1]>>
              IN  /\ state'.currentPosition = pos + 1
                  /\ pos \in DOMAIN state'.typedChars
                  /\ state'.typedChars[pos] = isCorrect
                  /\ \A p \in DOMAIN state.typedChars :
                        p # pos => /\ p \in DOMAIN state'.typedChars
                                   /\ state'.typedChars[p] = state.typedChars[p]
                  /\ state'.session.characterCount = state.session.characterCount + 1
                  /\ state'.session.errorCount =
                        state.session.errorCount + (IF isCorrect THEN 0 ELSE 1)]_vars

\* a wrong character was logged at 0 and the space of the text was typed
\* and matched at 1
C6_Witness ==
    /\ pos = 2
    /\ textLen = 3
    /\ state.text[2] = " "
    /\ state.typedChars[0] = FALSE
    /\ state.typedChars[1] = TRUE
    /\ state.session.characterCount = 2
    /\ state.session.errorCount = 1

\* C7: a backspace on a non-complete session moves the cursor from p > 0
\* to p - 1 and removes the log entry at p - 1, changes neither at p = 0,
\* and never changes characterCount or errorCount; on "ab cd" the keys
\* 'x', Backspace, 'a' end with log[0] = true, characterCount = 2,
\* errorCount = 1 and the cursor at 1.
C7_BackspaceStep ==
    /\ [][(~state.isComplete /\ KeyDown(Backspace)) =>
              /\ IF pos > 0
                 THEN /\ state'.currentPosition = pos - 1
                      /\ state'.typedChars =
                            [p \in (DOMAIN state.typedChars) \ {pos - 1} |->
                                state.typedChars[p]]
                 ELSE /\ state'.currentPosition = pos
                      /\ state'.typedChars = state.typedChars
              /\ state'.session.characterCount = state.session.characterCount
              /\ state'.session.errorCount = state.session.errorCount]_vars
    /\ []((state.text = ScenarioText /\ keys = << <<"x">>, Backspace, <<"a">> >>) =>
              /\ state.typedChars[0] = TRUE
              /\ state.session.characterCount = 2
              /\ state.session.errorCount = 1
              /\ pos = 1)

\* the scenario has been typed
C7_Witness ==
    /\ state.text = ScenarioText
    /\ keys = << <<"x">>, Backspace, <<"a">> >>

\* what a character key followed at once by a backspace does to the
\* session state st
undoRoundTrip(st, key) ==
    \A t1 \in Clock(st.session) :
        LET typed == handleKeyDown(st, key, t1)
        IN  \A t2 \in Clock(typed.session) :
                LET erased == handleKeyDown(typed, Backspace, t2)
                IN  /\ erased.currentPosition = st.currentPosition
                    /\ erased.typedChars = st.typedChars
                    /\ erased.session.characterCount = typed.session.characterCount
                    /\ erased.session.errorCount = typed.session.errorCount

\* C8 as stated: from every state with cursor < length(text), a character
\* key and then a backspace give back the cursor and the log, and keep
\* the counts the character key produced.
C8_UndoAnywhere ==
    \A key \in CharKeys : pos < textLen => undoRoundTrip(state, key)

\* C8, amended: the same from every state with cursor < length(text) - 1,
\* where the character key does not complete the session.
C8_UndoBeforeLast ==
    \A key \in CharKeys : pos < textLen - 1 => undoRoundTrip(state, key)

\* a character was typed at position 1 and erased at once
C8_Witness ==
    /\ Len(keys) = 3
    /\ KeyKind(keys[2]) = "char"
    /\ keys[3] = Backspace
    /\ pos = 1
    /\ pos < textLen - 1
    /\ state.session.characterCount = 2

\* C9: a key that is neither Backspace nor one character long changes
\* nothing of the session state.
C9_OtherKeyIsNoOp ==
    [][(\E key \in Keys : KeyKind(key) = "otherKey" /\ KeyDown(key)) =>
          state' = state]_vars

\* C10: the timing session is Idle until the first character keystroke, and
\* startTime is set at a character keystroke and at no other event.
C10_StartOnlyAtCharacter ==
    [][(state'.session.startTime # state.session.startTime
        \/ state'.session.isRunning # state.session.isRunning) =>
          \/ \E key \in CharKeys : KeyDown(key)
          \/ (\E mode \in Modes : handleModeChange(mode)) \/ handleRestart]_vars

\* the fields of the session state a word-list fetch can write
supplyView == <<state.words, state.text, state.isLoading, state.fetchError>>

\* C11: the success or the failure of a fetch started before a mode switch,
\* by the effect or by a retry, changes none of words, text, isLoading and
\* fetchError of the session the switch created.  A fetch in flight whose
\* mode is not the current one was started before a switch.
C11_StaleFetchDiscarded ==
    [][\A f \in FetchRecs :
          (/\ f \in fetches
           /\ f.mode # state.mode
           /\ (\E raw \in RawLists : fetchThen(f, raw)) \/ fetchCatch(f))
          => supplyView' = supplyView]_vars

\* the timing session has been started
inProgress == state.session.startTime # Undefined

\* C12: when the fetch for the current mode fails, the words are words of
\* the static list of the mode and fetchError is set, and a session in
\* progress keeps its text, cursor, log and timing session.
C12_FailureKeepsSession ==
    [][\A f \in FetchRecs :
          (f \in fetches /\ f.mode = state.mode /\ fetchCatch(f)) =>
              /\ state'.fetchError = "offline"
              /\ state'.words \in getFallbackWords(state.mode)
              /\ inProgress =>
                    /\ state'.text = state.text
                    /\ state'.currentPosition = state.currentPosition
                    /\ state'.typedChars = state.typedChars
                    /\ state'.session = state.session]_vars

\* C14: after a step of handleModeChange or handleRestart the cursor is 0,
\* the log is empty, the timing session is the one create() returns and
\* isComplete is false.
C14_FreshAfterInitialize ==
    [][((\E mode \in Modes : handleModeChange(mode)) \/ handleRestart) =>
          /\ state'.currentPosition = 0
          /\ DOMAIN state'.typedChars = {}
          /\ ~state'.session.isRunning
          /\ state'.session.characterCount = 0
          /\ state'.session.errorCount = 0
          /\ state'.session.startTime = Undefined
          /\ state'.session.endTime = Undefined
          /\ ~state'.isComplete]_vars

\* a mode change has cancelled the fetch of the mount and left a fresh
\* session of another mode
C14_Witness ==
    /\ state.mode # "all"
    /\ [mode |-> "-", by |-> "effect", cancelled |-> TRUE] \in fetches
    /\ state.currentPosition = 0
    /\ state.session = TimingSession_create

\* separator characters behind the cursor
separatorsConsumed == Cardinality({ p \in 0..(pos - 1) : state.text[p + 1] = " " })

\* the character just behind the cursor belongs to a word
inCurrentWord == pos > 0 /\ state.text[pos] # " "

\* C15: at every cursor position the displayed number of completed words
\* is the number of separators behind the cursor, plus one if a character
\* of the current word is behind the cursor; it is the number of words
\* when the session is complete.
C15_WordsCompleted ==
    /\ currentWordIndex(state) =
          separatorsConsumed + (IF inCurrentWord THEN 1 ELSE 0)
    /\ state.isComplete => currentWordIndex(state) = Len(state.words)

\* C16: after any sequence of create, start, stop and addCharacter,
\* errorCount <= characterCount, and a running session has no endTime.
C16_TimingInvariant ==
    /\ timing.errorCount <= timing.characterCount
    /\ timing.isRunning => timing.endTime = Undefined

\* a session that was stopped and started again, with every character an
\* error
C16_Witness ==
    /\ timing.isRunning
    /\ timing.startTime = MaxNow
    /\ timing.errorCount = MaxChars
    /\ timing.characterCount = MaxChars

\* C17: getDuration is 0 for a session never started, now - startTime for
\* a running one, and endTime - startTime for a stopped one, whatever the
\* clock shows then and later.
C17_Duration ==
    /\ [](/\ timing.startTime = Undefined =>
                \A t \in now..MaxNow : TimingSession_getDuration(timing, t) = 0
          /\ timing.isRunning =>
                TimingSession_getDuration(timing, now) = now - timing.startTime
          /\ (~timing.isRunning /\ timing.startTime # Undefined) =>
                \A t \in now..MaxNow :
                    TimingSession_getDuration(timing, t)
                        = timing.endTime - timing.startTime)
    /\ [][(Tick /\ ~timing.isRunning) =>
              TimingSession_getDuration(timing, now')
                  = TimingSession_getDuration(timing, now)]_vars
    /\ [][(Tick /\ timing.isRunning) =>
              TimingSession_getDuration(timing, now')
                  = TimingSession_getDuration(timing, now) + 1]_vars

\* a session started at 0 and stopped at 1, read when the clock shows 3
C17_Witness ==
    /\ ~timing.isRunning
    /\ timing.startTime = 0
    /\ timing.endTime = 1
    /\ now = MaxNow
    /\ TimingSession_getDuration(timing, now) = 1

\* C13: in every reachable state and at every clock value, render calls
\* calculateWPM only with a duration >= 1 and calculateAccuracy only with
\* a total > 0, so that neither fails, and with no character counted it
\* displays gross WPM 0, net WPM 0 and accuracy 100.
C13_StatsNeverFail ==
    \A t \in 0..MaxClock :
        /\ \A k \in statsCalls(state.session, t) :
              /\ k.fn = "calculateWPM" => k.b >= 1
              /\ k.fn = "calculateAccuracy" => k.a > 0
        /\ state.session.characterCount = 0 =>
              stats(state.session, t) = [grossWpm |-> 0, netWpm |-> 0, accuracy |-> 100]

\* a session completed within one reading of the clock: characters are
\* counted and the duration is 0
C13_Witness ==
    /\ state.isComplete
    /\ state.session.characterCount >= 1
    /\ state.session.endTime = state.session.startTime

\* r is the integer nearest to num / den (den > 0), the upper one of two
\* equally near
isRounded(r, num, den) ==
    /\ (2 * r - 1) * den <= 2 * num
    /\ 2 * num < (2 * r + 1) * den

wpmReturned == call.fn = "calculateWPM" /\ call.returned
accuracyReturned == call.fn = "calculateAccuracy" /\ call.returned

\* C18: calculateWPM(c, d) fails for every d <= 0, returns 0 for c = 0 and
\* d > 0, and otherwise returns (c / 5) / (d / 60000), that is
\* 12000 * c / d, rounded to the nearest integer.
C18_WpmFormula ==
    wpmReturned =>
        IF call.b <= 0 THEN call.result.tag = "Failure"
        ELSE IF call.a = 0 THEN call.result = Success(0)
        ELSE /\ call.result.tag = "Success"
             /\ isRounded(call.result.value, 12000 * call.a, call.b)

\* C19: calculateAccuracy(t, e) fails for t = 0, and for t >= 1 and e >= 0
\* returns an integer of 0..100 that is max(0, round((t - e) / t * 100)).
C19_AccuracyFormula ==
    accuracyReturned =>
        IF call.a = 0 THEN call.result.tag = "Failure"
        ELSE /\ call.result.tag = "Success"
             /\ call.result.value \in 0..100
             /\ IF call.b >= call.a THEN call.result.value = 0
                ELSE isRounded(call.result.value, 100 * (call.a - call.b), call.a)

\* C20 as stated: for c >= 1 and d > 0, more characters give a larger WPM
\* and a longer duration gives a smaller one.
C20_StrictlyMonotone ==
    (wpmReturned /\ call.a >= 1 /\ call.b > 0) =>
        /\ \A c2 \in Counts :
              call.a < c2 => call.result.value < calculateWPM(c2, call.b).value
        /\ \A d2 \in Durations :
              call.b < d2 => call.result.value > calculateWPM(call.a, d2).value

\* C20, amended: more characters never give a smaller WPM and a longer
\* duration never gives a larger one.
C20_Monotone ==
    (wpmReturned /\ call.a >= 1 /\ call.b > 0) =>
        /\ \A c2 \in Counts :
              call.a < c2 => call.result.value <= calculateWPM(c2, call.b).value
        /\ \A d2 \in Durations :
              call.b < d2 => call.result.value >= calculateWPM(call.a, d2).value

\* one character in a minute was rated, and two characters in a minute
\* rate the same, as does one character in two minutes
C20_Witness ==
    /\ wpmReturned
    /\ call.a = 1
    /\ call.b = 60000
    /\ call.result = calculateWPM(2, 60000)
    /\ call.result = calculateWPM(1, 120000)

\* C21: in every reachable state net WPM is at most gross WPM, and the two
\* are equal whenever no error is counted; they are rated by the same
\* formula over the same duration, net from characterCount - errorCount.
C21_NetAtMostGross ==
    LET shown == stats(timing, now)
    IN  /\ shown.netWpm <= shown.grossWpm
        /\ timing.errorCount = 0 => shown.netWpm = shown.grossWpm
        /\ timing.characterCount > timing.errorCount =>
              shown.netWpm =
                  calculateWPM(timing.characterCount - timing.errorCount,
                               Math_max(TimingSession_getDuration(timing, now), 1)).value

\* a started session with a correct and a wrong character, rated lower
\* net than gross
C21_Witness ==
    /\ timing.startTime # Undefined
    /\ timing.errorCount = 1
    /\ timing.characterCount = 2
    /\ stats(timing, now).netWpm < stats(timing, now).grossWpm

returned(fn) == call.fn = fn /\ call.returned

\* how often word w occurs in the list ws
occurrences(ws, w) == Cardinality({ i \in 1..Len(ws) : ws[i] = w })

\* C22: getRandomWords(words, count) with count >= 0 returns exactly
\* min(count, length(words)) words, uses no index of the pool twice (no word
\* comes out more often than the pool holds it), returns the empty list
\* for the empty pool, and leaves its argument as it was.
C22_SampleWithoutReplacement ==
    [][(call.fn = "getRandomWords" /\ ~call.returned /\ call'.returned) =>
          /\ Len(call'.result) = Min(call.b, Len(call.a))
          /\ \A w \in PoolWords :
                occurrences(call'.result, w) <= occurrences(call.a, w)
          /\ Len(call.a) = 0 => call'.result = << >>
          /\ call'.a = call.a
          /\ call'.b = call.b]_vars

\* two words were asked of a pool that holds the same word twice and
\* another one, and the word came out twice
C22_Witness ==
    /\ returned("getRandomWords")
    /\ call.a = << <<"a">>, <<"J">>, <<"a">> >>
    /\ call.b = 2
    /\ call.result = << <<"a">>, <<"a">> >>

\* the keys of a hand, in either case
eitherCase(handKeys) ==
    handKeys \cup { UpperCase[i] : i \in { j \in 1..Len(UpperCase) : LowerCase[j] \in handKeys } }

toUpperCase(char) ==
    IF \E i \in 1..Len(LowerCase) : LowerCase[i] = char
    THEN UpperCase[CHOOSE i \in 1..Len(LowerCase) : LowerCase[i] = char]
    ELSE char

\* C23: isSingleHandWord(w) is Left exactly when w is non-empty and each of
\* its characters is a left-hand key, Right exactly when w is non-empty and
\* each is a right-hand key, and undefined otherwise; the case of the
\* letters does not matter, and no word is a word of both hands.
C23_SingleHandWord ==
    returned("isSingleHandWord") =>
        LET w == call.a
            allOf(handKeys) ==
                Len(w) > 0 /\ \A i \in 1..Len(w) : w[i] \in eitherCase(handKeys)
        IN  /\ call.result = "Left" <=> allOf(LEFT_HAND_KEYS)
            /\ call.result = "Right" <=> allOf(RIGHT_HAND_KEYS)
            /\ call.result \in {"Left", "Right", "undefined"}
            /\ call.result = isSingleHandWord([i \in 1..Len(w) |-> toUpperCase(w[i])])
            /\ call.result = isSingleHandWord([i \in 1..Len(w) |-> toLowerCase(w[i])])
            /\ ~(isLeftHandWord(w) /\ isRightHandWord(w))

\* the empty word was classified, as a word of neither hand
C23_Witness ==
    /\ returned("isSingleHandWord")
    /\ call.a = << >>
    /\ call.result = "undefined"

stare == <<"s", "t", "a", "r", "e">>
pink == <<"p", "i", "n", "k">>
hello == <<"h", "e", "l", "l", "o">>

\* C24 as stated: "stare" is a left-hand word and "pink" a word of neither
\* hand.
C24_StareLeftPinkNeither ==
    returned("isSingleHandWord") =>
        /\ call.a = stare => call.result = "Left"
        /\ call.a = pink => call.result = "undefined"

\* C24, amended: "stare" is a left-hand word, "pink" a right-hand word
\* (p, i, n and k are all right-hand keys), and a word of both hands'
\* keys, "hello", a word of neither hand.
C24_StareLeftPinkRight ==
    returned("isSingleHandWord") =>
        /\ call.a = stare => call.result = "Left"
        /\ call.a = pink => call.result = "Right"
        /\ call.a = hello => call.result = "undefined"

\* "pink" was classified, as a right-hand word
C24_Witness ==
    /\ returned("isSingleHandWord")
    /\ call.a = pink
    /\ call.result = "Right"

\* the words of ws that are single-hand words of `hand`, in the order of ws
\* and as often as ws holds them, told index by index
wordsOfHand(ws, hand) ==
    LET keep == { i \in 1..Len(ws) : isSingleHandWord(ws[i]) = hand }
        kth(k) == CHOOSE i \in keep : Cardinality({ j \in keep : j < i }) = k - 1
    IN  [k \in 1..Cardinality(keep) |-> ws[kth(k)]]

\* what a fetch that filters for `hand` ("any": no filter) is to give under
\* the answer `net`, for the answers that fail or carry a word list
fetchedOfHand(net, hand) ==
    IF net.fetch = "rejects" \/ ~net.ok \/ net.json = "rejects"
    THEN Failure("FetchError")
    ELSE Success(Array(IF hand = "any" THEN net.data.words.items
                       ELSE wordsOfHand(net.data.words.items, hand)))

carriesWordList(net) ==
    (net.fetch = "resolves" /\ net.ok /\ net.json = "resolves") =>
        (net.data.json = "object" /\ net.data.words.type = "array")

\* C25: filterLeftHandWords and filterRightHandWords return exactly the
\* words of their argument that are single-hand words of that hand, in the
\* argument's order and with duplicates kept, so that filtering twice
\* changes nothing; fetchLeftHandWords and fetchRightHandWords give that
\* filter of the fetched list and fetchAllWords the fetched list as it is.
C25_FiltersByHand ==
    /\ returned("filterLeftHandWords") =>
          /\ call.result = wordsOfHand(call.a, "Left")
          /\ filterLeftHandWords(call.result) = call.result
    /\ returned("filterRightHandWords") =>
          /\ call.result = wordsOfHand(call.a, "Right")
          /\ filterRightHandWords(call.result) = call.result
    /\ (returned("fetchLeftHandWords") /\ carriesWordList(call.a)) =>
          call.result = fetchedOfHand(call.a, "Left")
    /\ (returned("fetchRightHandWords") /\ carriesWordList(call.a)) =>
          call.result = fetchedOfHand(call.a, "Right")
    /\ (returned("fetchAllWords") /\ carriesWordList(call.a)) =>
          call.result = fetchedOfHand(call.a, "any")

\* a list with a left-hand word twice, around a word of both hands, was
\* fetched for the left hand: the left-hand word came back twice
C25_Witness ==
    /\ returned("fetchLeftHandWords")
    /\ call.a.fetch = "resolves" /\ call.a.ok /\ call.a.json = "resolves"
    /\ call.a.data.json = "object"
    /\ call.a.data.words = Array(<< <<"a">>, <<"a", "j">>, <<"a">> >>)
    /\ call.result = Success(Array(<< <<"a">>, <<"a">> >>))

\* C26: fetchMonkeyTypeWords fails with FetchError when the request
\* rejects, the response is not ok or the decoding rejects, and otherwise
\* succeeds with a word list, the words array of the body; it ends in no
\* other way.
C26_FetchErrorOrWordList ==
    returned("fetchMonkeyTypeWords") =>
        IF call.a.fetch = "rejects" \/ ~call.a.ok \/ call.a.json = "rejects"
        THEN call.result = Failure("FetchError")
        ELSE /\ call.result.tag = "Success"
             /\ call.result.value.type = "array"
             /\ call.result.value = call.a.data.words

keystrokeStep == \E key \in Keys : KeyDown(key)

fetchCompletionStep ==
    \/ \E f \in FetchRecs, raw \in RawLists : fetchThen(f, raw)
    \/ \E f \in FetchRecs : fetchCatch(f)

\* C27: TimingSession.start is applied only to a session that is not
\* running and not complete, so that startTime, once set, is changed by no
\* keystroke, backspace or fetch completion of the session's lifetime.
C27_StartedOnce ==
    [][/\ (state'.session.startTime # state.session.startTime
             /\ state'.session.startTime # Undefined) =>
              (~state.session.isRunning /\ ~state.isComplete)
       /\ (state.session.startTime # Undefined
             /\ state'.session.startTime # state.session.startTime) =>
              ~(keystrokeStep \/ fetchCompletionStep)]_vars

\* a session started at 0 took a later keystroke at 1, which completed it
C27_Witness ==
    /\ state.isComplete
    /\ state.session.startTime = 0
    /\ state.session.endTime = 1

\* C28: whenever isLoading is true, a word-list fetch for the current mode
\* is in flight (so that loading ends once that fetch completes).
C28_LoadingHasFetch ==
    state.isLoading =>
        \E f \in fetches : ~f.cancelled /\ f.mode = state.mode

\* C29: in every reachable state the words of the session are words of the
\* current mode: left-hand words in mode "left", right-hand words in mode
\* "right".
C29_WordsOfMode ==
    /\ state.mode = "left" =>
          \A i \in 1..Len(state.words) : isLeftHandWord(state.words[i])
    /\ state.mode = "right" =>
          \A i \in 1..Len(state.words) : isRightHandWord(state.words[i])

\* C30: a keystroke is applied to a loading session exactly as to one that
\* is not loading: handleKeyDown neither reads nor writes isLoading.
C30_KeysIgnoreLoading ==
    \A key \in Keys, t \in Clock(state.session) :
        LET other == [state EXCEPT !.isLoading = ~state.isLoading]
        IN  /\ handleKeyDown(state, key, t).isLoading = state.isLoading
            /\ handleKeyDown(other, key, t)
                 = [handleKeyDown(state, key, t) EXCEPT !.isLoading = other.isLoading]

\* two characters and a backspace were applied to a session that has been
\* loading since it began
C30_Witness ==
    /\ state.isLoading
    /\ \A f \in fetches : f.by = "effect"
    /\ state.session.characterCount = 2
    /\ state.currentPosition = 1

\* C31: the completion of a fetch, by .then or .catch, of the effect or of
\* a retry, changes at most words, text, isLoading, fetchError and the
\* word cache: currentPosition, the keystroke log, the timing session,
\* isComplete (and the mode) stay as they are.
C31_FetchCompletionFrame ==
    [][(\/ state'.currentPosition # state.currentPosition
        \/ state'.typedChars # state.typedChars
        \/ state'.session # state.session
        \/ state'.isComplete # state.isComplete
        \/ state'.mode # state.mode) => ~fetchCompletionStep]_vars

\* a fetch completed on a session with one character typed: the text is now
\* the fetched one-character text, and the cursor still stands behind the
\* character typed into the earlier text
C31_Witness ==
    /\ state.currentPosition = 1
    /\ state.session.characterCount = 1
    /\ Len(state.text) = 1
    /\ ~state.isComplete
    /\ ~state.isLoading

initializeStep == (\E mode \in Modes : handleModeChange(mode)) \/ handleRestart

\* C32: a fetch for mode m that succeeds without being cancelled leaves its
\* list in the cache under m; an entry stays until a retry deletes it and
\* only ever holds the result of a fetch issued for its mode; and every
\* initialize for a cached mode takes its words from the cached list, is
\* not loading and starts no fetch.
C32_CacheServesInitialize ==
    [][/\ \A f \in FetchRecs, raw \in RawLists :
             (fetchThen(f, raw) /\ ~f.cancelled) =>
                 /\ f.mode \in DOMAIN wordCache'
                 /\ wordCache'[f.mode] = fetchWordsForMode(f.mode, raw)
       /\ \A m \in DOMAIN wordCache' :
             \E raw \in RawLists : wordCache'[m] = fetchWordsForMode(m, raw)
       /\ ~(DOMAIN wordCache \subseteq DOMAIN wordCache') => handleRetry
       /\ (/\ state'.currentPosition = 0
           /\ state'.session = TimingSession_create
           /\ state'.mode \in DOMAIN wordCache
           /\ initializeStep) =>
              /\ state'.words \in getRandomWords(wordCache[state'.mode], WORD_COUNT)
              /\ ~state'.isLoading
              /\ wordCache' = wordCache
              /\ \A f \in fetches' \ fetches : f.cancelled]_vars

\* the lists of "all" and of "right" are cached and the session, back in
\* mode "all", has the words of the cached list with nothing in flight
C32_Witness ==
    /\ DOMAIN wordCache = {"all", "right"}
    /\ state.mode = "all"
    /\ state.words = wordCache["all"]
    /\ ~state.isLoading
    /\ state.fetchError = "null"
    /\ fetches = {}

\* the number of log entries recorded as incorrect
incorrectEntries(st) ==
    Cardinality({ p \in DOMAIN st.typedChars : ~st.typedChars[p] })

countsAtLeastLog(st) ==
    /\ st.currentPosition <= st.session.characterCount
    /\ incorrectEntries(st) <= st.session.errorCount

countsEqualLog(st) ==
    /\ st.currentPosition = st.session.characterCount
    /\ incorrectEntries(st) = st.session.errorCount

\* C33: in every reachable state currentPosition <= characterCount and the
\* incorrect log entries number at most errorCount; both are equalities at
\* mount and stay equalities over every step that is not a backspace.
C33_CountsCoverLog ==
    /\ countsEqualLog(state)
    /\ [](countsAtLeastLog(state))
    /\ [][(countsEqualLog(state) /\ ~KeyDown(Backspace)) => countsEqualLog(state')]_vars

\* a wrong character was typed and erased, and a correct one typed: the
\* cursor and the log are behind the counters
C33_Witness ==
    /\ state.currentPosition = 1
    /\ state.session.characterCount = 2
    /\ state.session.errorCount = 1
    /\ incorrectEntries(state) = 0

stopped(st) == st.session.endTime # Undefined

\* C34: in every reachable state isComplete is true exactly when the timing
\* session is stopped (endTime is set); a stopped session is not running,
\* and no step makes it running again: it stays stopped until a session
\* newly created by initialize takes its place.
C34_CompleteIffStopped ==
    /\ [](state.isComplete <=> stopped(state))
    /\ [](stopped(state) => ~state.session.isRunning)
    /\ [][stopped(state) =>
             /\ ~state'.session.isRunning
             /\ state'.session = state.session \/ state'.session = TimingSession_create]_vars

\* a session stopped by its last character, and complete
C34_Witness ==
    /\ state.isComplete
    /\ stopped(state)
    /\ ~state.session.isRunning
    /\ state.session.startTime # Undefined
    /\ state.currentPosition = Len(state.text)

nonEmptyWords(ws) == Len(ws) > 0 /\ \A i \in 1..Len(ws) : Len(ws[i]) > 0

\* C35: for a text of non-empty words joined by single spaces and a cursor
\* in 0..length(text), the current-word index of WordDisplay is the
\* wordIndex of positionToIndices, also with the cursor on a separator.
C35_SameCurrentWord ==
    (returned("WordDisplay") /\ nonEmptyWords(call.a)) =>
        call.result = positionToIndices(call.a, call.b).wordIndex

RECURSIVE lengthBefore(_, _)
\* the sum of the lengths of the first w words of ws
lengthBefore(ws, w) == IF w = 0 THEN 0 ELSE lengthBefore(ws, w - 1) + Len(ws[w])

\* C36: for a non-empty word list and a position p in 0..length(text),
\* positionToIndices returns (w, c) with 0 <= w < wordCount,
\* 0 <= c <= length(words[w]) and
\* (lengths of the words before w) + w + c = p.
C36_IndicesOfPosition ==
    (returned("positionToIndices") /\ Len(call.a) > 0) =>
        LET w == call.result.wordIndex
            c == call.result.charIndex
        IN  /\ 0 <= w /\ w < Len(call.a)
            /\ 0 <= c /\ c <= Len(call.a[w + 1])
            /\ lengthBefore(call.a, w) + w + c = call.b

\* the cursor stands on the space between "ab" and "a": word 0, at its
\* length
C36_Witness ==
    /\ returned("positionToIndices")
    /\ call.a = << <<"a", "b">>, <<"a">> >>
    /\ call.b = 2
    /\ call.result = [wordIndex |-> 0, charIndex |-> 2]

\* the hand a finger belongs to
handOfFinger(finger) ==
    CASE finger \in {"LeftPinky", "LeftRing", "LeftMiddle", "LeftIndex"} -> "Left"
      [] finger \in {"RightIndex", "RightMiddle", "RightRing", "RightPinky"} -> "Right"
      [] OTHER -> "undefined"

layoutEntries(key) == { i \in 1..Len(KEYBOARD_LAYOUT) : KEYBOARD_LAYOUT[i].key = key }

isLetter(key) == key \in Letters \/ toLowerCase(key) # key

\* C37: every letter a-z is in exactly one of the two hand key sets, its
\* finger in KEY_TO_FINGER is a finger of that hand, and it has exactly one
\* KEYBOARD_LAYOUT entry, with that finger and hand; getHandForKey and
\* getFingerForKey answer alike for a letter and its upper-case form, and
\* getHandForKey is undefined for every key that is no letter.
C37_TablesAgree ==
    /\ \A k \in Letters :
          /\ (k \in LEFT_HAND_KEYS) # (k \in RIGHT_HAND_KEYS)
          /\ k \in DOMAIN KEY_TO_FINGER
          /\ handOfFinger(KEY_TO_FINGER[k]) = getHandForKey(k)
          /\ Cardinality(layoutEntries(k)) = 1
          /\ \A i \in layoutEntries(k) :
                /\ KEYBOARD_LAYOUT[i].finger = KEY_TO_FINGER[k]
                /\ KEYBOARD_LAYOUT[i].hand = getHandForKey(k)
    /\ LEFT_HAND_KEYS \cup RIGHT_HAND_KEYS = Letters
    /\ \A i \in 1..Len(KEYBOARD_LAYOUT) : KEYBOARD_LAYOUT[i].key \in Letters
    /\ returned("getHandForKey") =>
          /\ call.result = getHandForKey(toLowerCase(call.a))
          /\ isLetter(call.a) => call.result \in {"Left", "Right"}
          /\ ~isLetter(call.a) => call.result = "undefined"
    /\ returned("getFingerForKey") =>
          /\ call.result = getFingerForKey(toLowerCase(call.a))
          /\ isLetter(call.a) => handOfFinger(call.result) = getHandForKey(call.a)

\* the finger of "P" was asked for: the right little finger, as for "p"
C37_Witness ==
    /\ returned("getFingerForKey")
    /\ call.a = "P"
    /\ call.result = "RightPinky"
    /\ getHandForKey("P") = "Right"

====
